---- MODULE Spec2Model ----
(***************************************************************************)
(* Session-scoped conversation state of the product-search chatbot:        *)
(* SessionManager, RejectionTracker, ConversationMemoryManager and the     *)
(* per-turn orchestration of ConversationalAgentService.                   *)
(*                                                                         *)
(* Python objects are shared by reference: get_session hands out the       *)
(* stored SessionState object and callers mutate it in place.  The heap    *)
(* keeps one SessionState object per session id ever allocated; the        *)
(* session table (the dict SessionManager.sessions) is the set of ids      *)
(* whose object is currently stored.                                       *)
(*                                                                         *)
(* Operations are written as transformers of a "world" record              *)
(* [now, sessions, heap]; every one returns [w |-> world', val |-> value]  *)
(* or just the new world, so that a handler is the composition of the      *)
(* calls it makes, in the order the code makes them.                       *)
(***************************************************************************)
EXTENDS Integers, Sequences, FiniteSets, TLC

VARIABLES
    now,        \* the wall clock read by datetime.now(), in ticks
    sessions,   \* keys of SessionManager.sessions
    heap,       \* session id -> SessionState object
    nextId,     \* number of session ids handed out by create_session
    named,      \* ghost: session id -> product ids explicitly named so far
    turns,      \* ghost: session id -> generate_response calls on the live session, and those whose retrieval raised
    inflight,   \* thread -> the call it is in the middle of, with its locals
    ret         \* the last call: its name, arguments and returned value

vars == <<now, sessions, heap, nextId, named, turns, inflight, ret>>

-----------------------------------------------------------------------------
(* Bounds of the model *)

MaxSessions == 2      \* session ids create_session can hand out
MaxTime == 2          \* the clock stops ticking here
SessionTimeout == 1   \* session_timeout, in ticks
MaxCalls == 2         \* generate_response calls per session
MaxPhrases == 2       \* phrases per message of the detection corpus
MaxRecent == 5        \* longest recently-shown list handed to detection
MaxHistory == 2       \* turns added to a history by add_user_message and add_ai_message
MaxItems == 5         \* items of an array, lines of a text the follow-up LLM replies

(* Program constants *)

TopSlice == 5         \* products[:5] and shown_ids[-5:]

None == "None"        \* Python's None; also a product dict without an "id"

SessionIds == 1..MaxSessions

-----------------------------------------------------------------------------
(* Sequence helpers *)

Range(s) == {s[i] : i \in DOMAIN s}

Take(s, n) == SubSeq(s, 1, IF n < Len(s) THEN n ELSE Len(s))

\* s[-n:]
LastN(s, n) == SubSeq(s, IF Len(s) > n THEN Len(s) - n + 1 ELSE 1, Len(s))

Contains(s, x) == \E i \in DOMAIN s : s[i] = x

RECURSIVE Concat(_)
Concat(ss) == IF ss = <<>> THEN <<>> ELSE Head(ss) \o Concat(Tail(ss))

\* all sequences over S of length at most n
RECURSIVE SeqsUpTo(_, _)
SeqsUpTo(S, n) ==
    IF n = 0 THEN {<<>>}
    ELSE LET shorter == SeqsUpTo(S, n - 1)
         IN  shorter \cup {Append(s, x) : s \in {t \in shorter : Len(t) = n - 1}, x \in S}

-----------------------------------------------------------------------------
(* Text.  A message is a sequence of tokens separated by whitespace; a     *)
(* token is a maximal run of word characters, or the punctuation mark ",", *)
(* which is glued to the word before it and so breaks a \s+ between two    *)
(* words.  A token is its lower-case spelling w and its letter case cs:    *)
(* "l" all lower, "u" all upper, "m" mixed.                                *)

Lo(word) == [w |-> word, cs |-> "l"]
Up(word) == [w |-> word, cs |-> "u"]
Mx(word) == [w |-> word, cs |-> "m"]

Comma == Lo(",")

Caseless(t) == t.w = ","

\* str.lower() and str.upper(), token by token
LowerTok(t) == IF Caseless(t) THEN t ELSE [t EXCEPT !.cs = "l"]
UpperTok(t) == IF Caseless(t) THEN t ELSE [t EXCEPT !.cs = "u"]

Lower(msg) == [i \in DOMAIN msg |-> LowerTok(msg[i])]
Upper(msg) == [i \in DOMAIN msg |-> UpperTok(msg[i])]

\* the product id a token spells when it reads PRD<digits> in upper case
IdWords == {"prd1", "prd2", "prd9"}
IdText(word) ==
    CASE word = "prd1" -> "PRD1"
      [] word = "prd2" -> "PRD2"
      [] word = "prd9" -> "PRD9"

-----------------------------------------------------------------------------
(* Regular expressions.  A pattern \bw1\s+w2...\b is a sequence of         *)
(* elements; an element is the set of lower-case literals it accepts and   *)
(* whether it is optional ((?:the\s+)?).  A literal matches a token only   *)
(* when the token is spelled exactly like it, letter case included.        *)

Lit(words) == [words |-> words, opt |-> FALSE]
Opt(words) == [words |-> words, opt |-> TRUE]

LitMatches(e, t) == t.cs = "l" /\ t.w \in e.words /\ ~Caseless(t)

\* the pattern matches the tokens of text from position i on
RECURSIVE MatchAt(_, _, _)
MatchAt(pat, text, i) ==
    IF pat = <<>> THEN TRUE
    ELSE LET e == Head(pat)
             here == i <= Len(text) /\ LitMatches(e, text[i])
         IN  \/ here /\ MatchAt(Tail(pat), text, i + 1)
             \/ e.opt /\ MatchAt(Tail(pat), text, i)

\* re.search(pattern, text)
Search(pat, text) == \E i \in 1..Len(text) : MatchAt(pat, text, i)

-----------------------------------------------------------------------------
(* SessionState and SessionManager *)

\* SessionState.__init__ at time t.  A turn of conversation_history is kept
\* as its role; its text is never read back by the operations modelled here.
\* A value json.loads can return, as far as the code looks at it: an object
\* (kept as the set of its keys), a number other than zero, or null
JObject(keys) == [json |-> "object", keys |-> keys]
JNumber == [json |-> "number", keys |-> {}]
JNull == [json |-> "null", keys |-> {}]

\* bool(value)
Truthy(value) == value.json = "number" \/ (value.json = "object" /\ value.keys # {})

NewSessionState(t) ==
    [last_updated |-> t,
     conversation_history |-> <<>>,
     shown_products |-> {},
     rejected_products |-> {},
     accumulated_constraints |-> JObject({})]

World == [now |-> now, sessions |-> sessions, heap |-> heap]

\* a session manager that never expires anything
IsExpiredOff(w, sid) == FALSE

\* SessionManager._is_expired
IsExpired(w, sid) == w.now - w.heap[sid].last_updated > SessionTimeout

\* del self.sessions[session_id]: the ids leave the table and their objects,
\* which nothing refers to any more, are gone
Drop(w, sids) ==
    [w EXCEPT !.sessions = @ \ sids,
              !.heap = [sid \in DOMAIN @ |->
                           IF sid \in sids \cap w.sessions THEN NewSessionState(0) ELSE @[sid]]]

\* a get that refreshes the timestamp of the session it returns
GetSessionTouches(w, sid) ==
    IF sid \notin w.sessions
    THEN [w |-> w, found |-> FALSE]
    ELSE IF IsExpired(w, sid)
         THEN [w |-> Drop(w, {sid}), found |-> FALSE]
         ELSE [w |-> [w EXCEPT !.heap[sid].last_updated = w.now], found |-> TRUE]

\* a get that creates the session it does not find
GetSessionCreates(w, sid) ==
    IF sid \notin w.sessions
    THEN [w |-> [w EXCEPT !.sessions = @ \cup {sid}], found |-> TRUE]
    ELSE IF IsExpired(w, sid)
         THEN [w |-> Drop(w, {sid}), found |-> FALSE]
         ELSE [w |-> w, found |-> TRUE]

\* SessionManager.get_session: found says whether the stored object heap[sid]
\* is returned, rather than None
GetSession(w, sid) ==
    IF sid \notin w.sessions
    THEN [w |-> w, found |-> FALSE]
    ELSE IF IsExpired(w, sid)
         THEN [w |-> Drop(w, {sid}), found |-> FALSE]
         ELSE [w |-> w, found |-> TRUE]

\* an update that leaves a session that has timed out as it is
UpdateSessionChecksExpiry(w, sid) ==
    IF sid \in w.sessions /\ ~IsExpired(w, sid)
    THEN [w EXCEPT !.heap[sid].last_updated = w.now]
    ELSE w

\* an update that stores the state under an id the table does not hold
UpdateSessionInserts(w, sid) ==
    [w EXCEPT !.sessions = @ \cup {sid}, !.heap[sid].last_updated = w.now]

\* SessionManager.update_session(session_id, state), state being the object
\* get_session(session_id) returned, already mutated in place by the caller
UpdateSession(w, sid) ==
    IF sid \in w.sessions
    THEN [w EXCEPT !.heap[sid].last_updated = w.now]
    ELSE w

\* SessionManager.delete_session
DeleteSession(w, sid) == Drop(w, {sid})

\* a sweep that also removes the sessions whose age equals the timeout
CleanupAtTimeout(w) ==
    LET expired_sessions ==
            {sid \in w.sessions : w.now - w.heap[sid].last_updated >= SessionTimeout}
    IN  [w |-> Drop(w, expired_sessions),
         val |-> Cardinality(expired_sessions)]

\* SessionManager.cleanup_expired_sessions
CleanupExpiredSessions(w) ==
    LET expired_sessions == {sid \in w.sessions : IsExpired(w, sid)}
    IN  [w |-> Drop(w, expired_sessions),
         val |-> Cardinality(expired_sessions)]

\* an empty dict
EmptyDict == <<>>

\* SessionManager.get_stats, without session_duration_seconds (the model
\* does not keep created_at); len() of constraints that are a number or
\* null raises TypeError
GetStats(w, sid) ==
    LET g == GetSession(w, sid)
    IN  [w |-> g.w,
         val |-> IF ~g.found THEN EmptyDict
                 ELSE IF g.w.heap[sid].accumulated_constraints.json # "object"
                 THEN [raised |-> TRUE]
                 ELSE [message_count |-> Len(g.w.heap[sid].conversation_history),
                       shown_products_count |-> Cardinality(g.w.heap[sid].shown_products),
                       rejected_products_count |-> Cardinality(g.w.heap[sid].rejected_products),
                       constraints_count |-> Cardinality(g.w.heap[sid].accumulated_constraints.keys)]]

-----------------------------------------------------------------------------
(* RejectionTracker *)

\* a set that is replaced by the ids of the call
ShownProductsAssigned(w, sid, product_ids) ==
    [w EXCEPT !.heap[sid].shown_products = Range(product_ids)]

\* session.shown_products.update(product_ids), on the object get_session
\* returned, which is the stored one
ShownProductsUpdate(w, sid, product_ids) ==
    [w EXCEPT !.heap[sid].shown_products = @ \cup Range(product_ids)]

\* session.rejected_products.update(product_ids)
RejectedProductsUpdate(w, sid, product_ids) ==
    [w EXCEPT !.heap[sid].rejected_products = @ \cup Range(product_ids)]

\* RejectionTracker.mark_shown
MarkShown(w, sid, product_ids) ==
    LET g == GetSession(w, sid)
    IN  IF ~g.found THEN g.w
        ELSE UpdateSession(ShownProductsUpdate(g.w, sid, product_ids), sid)

\* a rejection step that is skipped
MarkRejectedSkipped(w, sid, product_ids) == GetSession(w, sid).w

\* RejectionTracker.mark_rejected
MarkRejected(w, sid, product_ids) ==
    LET g == GetSession(w, sid)
    IN  IF ~g.found THEN g.w
        ELSE UpdateSession(RejectedProductsUpdate(g.w, sid, product_ids), sid)

\* RejectionTracker.get_shown_products
GetShownProducts(w, sid) ==
    LET g == GetSession(w, sid)
    IN  [w |-> g.w,
         val |-> IF g.found THEN g.w.heap[sid].shown_products ELSE {}]

\* RejectionTracker.get_rejected_products
GetRejectedProducts(w, sid) ==
    LET g == GetSession(w, sid)
    IN  [w |-> g.w,
         val |-> IF g.found THEN g.w.heap[sid].rejected_products ELSE {}]

\* RejectionTracker.get_rejection_stats; the rate is kept as the pair of
\* its numerator and denominator, the list of rejected ids as their set
GetRejectionStats(w, sid) ==
    LET g == GetSession(w, sid)
    IN  [w |-> g.w,
         val |-> IF ~g.found THEN EmptyDict
                 ELSE LET session == g.w.heap[sid]
                      IN  [shown_count |-> Cardinality(session.shown_products),
                           rejected_count |-> Cardinality(session.rejected_products),
                           rejection_rate |->
                               IF session.shown_products # {}
                               THEN <<Cardinality(session.rejected_products),
                                      Cardinality(session.shown_products)>>
                               ELSE <<0, 1>>,
                           rejected_product_ids |-> session.rejected_products]]

\* filtering against what any session rejected
FilterProductsAnySession(w, sid, products) ==
    LET g == GetSession(w, sid)
        rejected == UNION {g.w.heap[s].rejected_products : s \in g.w.sessions}
    IN  [w |-> g.w, val |-> SelectSeq(products, LAMBDA p : p \notin rejected)]

\* filtering that also loses the first product kept
FilterProductsSkipsFirst(w, sid, products) ==
    LET g == GetSession(w, sid)
        kept == IF ~g.found THEN products
                ELSE SelectSeq(products,
                         LAMBDA p : p \notin g.w.heap[sid].rejected_products)
    IN  [w |-> g.w, val |-> IF kept = <<>> THEN kept ELSE Tail(kept)]

\* RejectionTracker.filter_products; a product is the value of p.get("id")
FilterProducts(w, sid, products) ==
    LET g == GetSession(w, sid)
    IN  IF ~g.found \/ g.w.heap[sid].rejected_products = {}
        THEN [w |-> g.w, val |-> products]
        ELSE [w |-> g.w,
              val |-> SelectSeq(products,
                          LAMBDA p : p \notin g.w.heap[sid].rejected_products)]

-----------------------------------------------------------------------------
(* RejectionTracker.detect_implicit_rejection *)

\* ordinal_patterns: the pattern of index k rejects shown_products[k-1]
OrdinalWords == <<"first", "second", "third", "fourth", "fifth">>

ordinal_patterns ==
    [k \in DOMAIN OrdinalWords |-> <<Lit({"not"}), Opt({"the"}), Lit({OrdinalWords[k]})>>]

rejection_phrases ==
    << <<Lit({"not"}), Lit({"these"})>>,
       <<Lit({"show"}), Lit({"different"})>>,
       <<Lit({"something"}), Lit({"else"})>>,
       <<Lit({"other"}), Lit({"options"})>>,
       <<Lit({"different"}), Lit({"ones"})>>,
       <<Lit({"not"}), Lit({"interested"})>>,
       <<Lit({"don't"}), Lit({"like"})>> >>

price_rejection_phrases ==
    << <<Lit({"too"}), Lit({"expensive"})>>,
       <<Lit({"too"}), Lit({"costly"})>>,
       <<Lit({"cheaper"})>>,
       <<Lit({"less"}), Lit({"expensive"})>>,
       <<Lit({"lower"}), Lit({"price"})>> >>

style_rejection_phrases ==
    << <<Lit({"different"}), Lit({"color"})>>,
       <<Lit({"other"}), Lit({"color", "colors"})>>,
       <<Lit({"not"}), Lit({"this"}), Lit({"color"})>>,
       <<Lit({"different"}), Lit({"style"})>> >>

\* some phrase of the class is found in the text
AnyPhrase(phrases, text) == \E k \in DOMAIN phrases : Search(phrases[k], text)

\* PRD\d+ against a token of the text
IsIdToken(t) == t.w \in IdWords /\ t.cs = "u"

\* the keyword of the id pattern, written (?:not|except) in lower case and
\* compiled without re.IGNORECASE
IdKeyword == Lit({"not", "except"})

\* re.findall(r'\b(?:not|except)\s+(PRD\d+)\b', text): the captured ids, in
\* the order of their matches
RECURSIVE FindAllIds(_, _)
FindAllIds(text, i) ==
    IF i + 1 > Len(text) THEN <<>>
    ELSE IF LitMatches(IdKeyword, text[i]) /\ IsIdToken(text[i + 1])
         THEN <<IdText(text[i + 1].w)>> \o FindAllIds(text, i + 2)
         ELSE FindAllIds(text, i + 1)

\* only the first product shown is rejected
AppendFirstNew(rejected_ids, shown_products) ==
    IF shown_products = <<>> \/ Head(shown_products) = None
          \/ Contains(rejected_ids, Head(shown_products))
    THEN rejected_ids
    ELSE Append(rejected_ids, Head(shown_products))

\* an append of every id shown, whether collected already or not
RECURSIVE AppendAllUnchecked(_, _)
AppendAllUnchecked(rejected_ids, shown_products) ==
    IF shown_products = <<>> THEN rejected_ids
    ELSE AppendAllUnchecked(
             IF Head(shown_products) # None
             THEN Append(rejected_ids, Head(shown_products))
             ELSE rejected_ids,
             Tail(shown_products))

\* for product in shown_products: append its id unless falsy or already there
RECURSIVE AppendAllNew(_, _)
AppendAllNew(rejected_ids, shown_products) ==
    IF shown_products = <<>> THEN rejected_ids
    ELSE LET product_id == Head(shown_products)
         IN  AppendAllNew(
                 IF product_id # None /\ ~Contains(rejected_ids, product_id)
                 THEN Append(rejected_ids, product_id)
                 ELSE rejected_ids,
                 Tail(shown_products))

\* the loop with the ordinal taken as the 0-based index
RECURSIVE OrdinalLoopOneBased(_, _, _, _)
OrdinalLoopOneBased(k, message_lower, shown_products, rejected_ids) ==
    IF k > Len(OrdinalWords) THEN rejected_ids
    ELSE OrdinalLoopOneBased(k + 1, message_lower, shown_products,
             IF /\ Search(ordinal_patterns[k], message_lower)
                /\ k < Len(shown_products)
                /\ shown_products[k + 1] # None
             THEN Append(rejected_ids, shown_products[k + 1])
             ELSE rejected_ids)

\* the loop over ordinal_patterns, from pattern k on
RECURSIVE OrdinalLoop(_, _, _, _)
OrdinalLoop(k, message_lower, shown_products, rejected_ids) ==
    IF k > Len(OrdinalWords) THEN rejected_ids
    ELSE OrdinalLoop(k + 1, message_lower, shown_products,
             IF /\ Search(ordinal_patterns[k], message_lower)
                /\ k - 1 < Len(shown_products)
                /\ shown_products[k] # None
             THEN Append(rejected_ids, shown_products[k])
             ELSE rejected_ids)

\* one of the three "reject everything shown" classes
PhraseClass(phrases, message_lower, shown_products, rejected_ids) ==
    IF AnyPhrase(phrases, message_lower)
    THEN AppendAllNew(rejected_ids, shown_products)
    ELSE rejected_ids

\* the ids of the explicit-id class
RECURSIVE AppendNew(_, _)
AppendNew(rejected_ids, matches) ==
    IF matches = <<>> THEN rejected_ids
    ELSE AppendNew(
             IF ~Contains(rejected_ids, Head(matches))
             THEN Append(rejected_ids, Head(matches))
             ELSE rejected_ids,
             Tail(matches))

\* the list built once the session is known to exist
DetectedIds(message, shown_products) ==
    LET message_lower == Lower(message)
        r1 == OrdinalLoop(1, message_lower, shown_products, <<>>)
        r2 == PhraseClass(rejection_phrases, message_lower, shown_products, r1)
        r3 == PhraseClass(price_rejection_phrases, message_lower, shown_products, r2)
        r4 == PhraseClass(style_rejection_phrases, message_lower, shown_products, r3)
    IN  AppendNew(r4, FindAllIds(Upper(message_lower), 1))

\* RejectionTracker.detect_implicit_rejection; shown_products is the list of
\* the p.get("id") of the products passed
DetectImplicitRejection(w, sid, message, shown_products) ==
    LET g == GetSession(w, sid)
    IN  [w |-> g.w,
         val |-> IF ~g.found THEN <<>> ELSE DetectedIds(message, shown_products)]

-----------------------------------------------------------------------------
(* ConversationMemoryManager *)

\* session.conversation_history.append({"role": ..., "content": ...})
HistoryAppend(w, sid, role) ==
    [w EXCEPT !.heap[sid].conversation_history = Append(@, role)]

\* the append of one turn to session.conversation_history, then update_session
AddMessage(w, sid, role) ==
    LET g == GetSession(w, sid)
    IN  IF ~g.found THEN g.w
        ELSE UpdateSession(HistoryAppend(g.w, sid, role), sid)

\* an assistant turn that is never recorded
AddAiMessageDropped(w, sid) == GetSession(w, sid).w

\* ConversationMemoryManager.add_user_message
AddUserMessage(w, sid) == AddMessage(w, sid, "user")

\* ConversationMemoryManager.add_ai_message
AddAiMessage(w, sid) == AddMessage(w, sid, "assistant")

\* ConversationMemoryManager.get_conversation_history
GetConversationHistory(w, sid) ==
    LET g == GetSession(w, sid)
    IN  [w |-> g.w,
         val |-> IF g.found THEN g.w.heap[sid].conversation_history ELSE <<>>]

\* A reply of the hosted LLM: the call raises ("error"), the text is not JSON
\* ("text"), or it parses to a value ("json").
ConstraintKeys == {"price", "occasion", "color", "brand"}
Reply(kind, value) == [kind |-> kind, value |-> value]
ConstraintReplies ==
    {Reply("error", JNull), Reply("text", JNull), Reply("json", JNumber), Reply("json", JNull)}
        \cup {Reply("json", JObject(m)) : m \in {{}, {"price"}, {"price", "color"}, ConstraintKeys}}

\* an extraction that asks the LLM again once the history has grown past
\* one turn
ExtractRefreshes(w, sid, reply) ==
    LET h == GetConversationHistory(w, sid)
        g == GetSession(h.w, sid)
    IN  IF h.val = <<>>
        THEN [w |-> h.w, val |-> JObject({}), llm |-> FALSE]
        ELSE IF g.found /\ Truthy(g.w.heap[sid].accumulated_constraints) /\ Len(h.val) = 1
        THEN [w |-> g.w, val |-> g.w.heap[sid].accumulated_constraints, llm |-> FALSE]
        ELSE IF reply.kind # "json"
        THEN [w |-> g.w, val |-> JObject({}), llm |-> TRUE]
        ELSE [w |-> IF g.found
                    THEN UpdateSession(
                             [g.w EXCEPT !.heap[sid].accumulated_constraints = reply.value],
                             sid)
                    ELSE g.w,
              val |-> reply.value,
              llm |-> TRUE]

\* an extraction that asks the LLM about an empty history too
ExtractWithoutHistoryCheck(w, sid, reply) ==
    LET g == GetSession(w, sid)
    IN  IF g.found /\ Truthy(g.w.heap[sid].accumulated_constraints)
        THEN [w |-> g.w, val |-> g.w.heap[sid].accumulated_constraints, llm |-> FALSE]
        ELSE IF reply.kind # "json"
        THEN [w |-> g.w, val |-> JObject({}), llm |-> TRUE]
        ELSE [w |-> IF g.found
                    THEN UpdateSession(
                             [g.w EXCEPT !.heap[sid].accumulated_constraints = reply.value],
                             sid)
                    ELSE g.w,
              val |-> reply.value,
              llm |-> TRUE]

\* an extraction that returns and caches None when the LLM fails
ExtractFailureCached(w, sid, reply) ==
    LET h == GetConversationHistory(w, sid)
        g == GetSession(h.w, sid)
        value == IF reply.kind = "json" THEN reply.value ELSE JNull
    IN  IF h.val = <<>>
        THEN [w |-> h.w, val |-> JObject({}), llm |-> FALSE]
        ELSE IF g.found /\ Truthy(g.w.heap[sid].accumulated_constraints)
        THEN [w |-> g.w, val |-> g.w.heap[sid].accumulated_constraints, llm |-> FALSE]
        ELSE [w |-> IF g.found
                    THEN UpdateSession(
                             [g.w EXCEPT !.heap[sid].accumulated_constraints = value], sid)
                    ELSE g.w,
              val |-> value,
              llm |-> TRUE]

\* ConversationMemoryManager.extract_accumulated_constraints of a manager
\* built with an LLM (without one the call returns {} at once), the LLM
\* answering with reply when it is called; llm says whether it was called
ExtractAccumulatedConstraints(w, sid, reply) ==
    LET h == GetConversationHistory(w, sid)
        g == GetSession(h.w, sid)
    IN  IF h.val = <<>>
        THEN [w |-> h.w, val |-> JObject({}), llm |-> FALSE]
        ELSE IF g.found /\ Truthy(g.w.heap[sid].accumulated_constraints)
        THEN [w |-> g.w, val |-> g.w.heap[sid].accumulated_constraints, llm |-> FALSE]
        ELSE IF reply.kind # "json"
        THEN [w |-> g.w, val |-> JObject({}), llm |-> TRUE]
        ELSE [w |-> IF g.found
                    THEN UpdateSession(
                             [g.w EXCEPT !.heap[sid].accumulated_constraints = reply.value],
                             sid)
                    ELSE g.w,
              val |-> reply.value,
              llm |-> TRUE]

-----------------------------------------------------------------------------
(* FollowUpQuestionGenerator *)

\* An item of a JSON array, or a line of a text: a question ("Q1", ...), or
Blank == " "          \* a string that is empty once stripped
NotStr == "<number>"  \* an array item that is not a string
Prose == "prose"      \* a line that does not end with a question mark

\* A reply to the follow-up prompt: the call raises ("error"), the text
\* parses to a JSON array of items ("array"), to another JSON value
\* ("object"), or is not JSON and is a sequence of lines ("text").
FollowUpReply(kind, items) == [kind |-> kind, items |-> items]

\* what a call returns, or that it raised
Returned(val) == [raised |-> FALSE, val |-> val]
Raised == [raised |-> TRUE, val |-> <<>>]

\* FollowUpQuestionGenerator._extract_questions_manually
ExtractQuestionsManually(lines) ==
    Take(SelectSeq(lines, LAMBDA line : line \notin {Prose, Blank}), 4)

\* FollowUpQuestionGenerator._parse_questions
ParseQuestions(reply) ==
    IF reply.kind = "array"
    THEN SelectSeq(reply.items, LAMBDA q : q \notin {NotStr, Blank})
    ELSE IF reply.kind = "object"
    THEN <<>>
    ELSE ExtractQuestionsManually(reply.items)

\* the canned question of each category, in the order they are asked
FallbackCategories == <<"price", "occasion", "color", "brand">>
GenericQuestions == <<"more_options", "size_help">>

\* a fallback that pads whenever fewer than four resulted
GetFallbackQuestionsPadded(accumulated_constraints) ==
    IF accumulated_constraints.json # "object" THEN Raised
    ELSE LET questions == SelectSeq(FallbackCategories,
                              LAMBDA c : c \notin accumulated_constraints.keys)
         IN  Returned(Take(IF Len(questions) < 4
                           THEN questions \o GenericQuestions
                           ELSE questions, 5))

\* FollowUpQuestionGenerator._get_fallback_questions: "x" not in value
\* raises TypeError unless the value is a container
GetFallbackQuestions(accumulated_constraints) ==
    IF accumulated_constraints.json # "object" THEN Raised
    ELSE LET questions == SelectSeq(FallbackCategories,
                              LAMBDA c : c \notin accumulated_constraints.keys)
         IN  Returned(Take(IF Len(questions) < 2
                           THEN questions \o GenericQuestions
                           ELSE questions, 4))

\* FollowUpQuestionGenerator.generate
Generate(accumulated_constraints, reply, max_questions) ==
    IF reply.kind = "error"
    THEN GetFallbackQuestions(accumulated_constraints)
    ELSE Returned(Take(ParseQuestions(reply), max_questions))

-----------------------------------------------------------------------------
(* ConversationalAgentService *)

\* every product id of the model, in catalogue order
AllIds == <<"PRD1", "PRD2", "PRD3", "PRD4", "PRD5", "PRD6", "PRD9">>

Reverse(s) == [i \in DOMAIN s |-> s[Len(s) + 1 - i]]
Rotate(s, k) == [i \in DOMAIN s |-> s[((i - 1 + k) % Len(s)) + 1]]

\* the list of the whole catalogue instead of the set's
ListOfSetWhole(S) == {AllIds}

\* list(a_set): the iteration order of a Python set of strings depends on
\* the per-process string hashes, so any order is possible.  The orders
\* drawn are the rotations of the catalogue order and of its reverse: every
\* order of a set of up to three ids, and for larger sets every id in every
\* position.
ListOfSet(S) ==
    LET asc == SelectSeq(AllIds, LAMBDA p : p \in S)
    IN  IF S = {} THEN {<<>>}
        ELSE {Rotate(asc, k) : k \in 0..(Cardinality(S) - 1)}
                 \cup {Rotate(Reverse(asc), k) : k \in 0..(Cardinality(S) - 1)}

\* [p.get("id") for p in products if p.get("id")]
IdsOf(products) == SelectSeq(products, LAMBDA p : p # None)

\* A reply to the recommendation prompt: "json" carries the list found under
\* recommended_product_ids; "nodocs" stands for product documents none of
\* which can be formatted, in which case the LLM is not called.
RecoReply(kind, ids) == [kind |-> kind, ids |-> ids]

\* ConversationalAgentService._generate_structured_recommendation
GenerateStructuredRecommendation(products, reply) ==
    IF products = <<>>
    THEN [response_text |-> "none_found", recommended_product_ids |-> <<>>]
    ELSE IF reply.kind = "nodocs"
    THEN [response_text |-> "unformattable", recommended_product_ids |-> <<>>]
    ELSE IF reply.kind = "json"
    THEN [response_text |-> "llm", recommended_product_ids |-> reply.ids]
    ELSE [response_text |-> "found_n", recommended_product_ids |-> IdsOf(products)]

\* a fallback response without follow-up questions
GetFallbackResponseBare(sid) ==
    [response_text |-> "apology",
     recommended_product_ids |-> <<>>,
     follow_up_questions |-> <<>>,
     session_id |-> sid]

\* ConversationalAgentService._get_fallback_response
GetFallbackResponse(sid) ==
    [response_text |-> "apology",
     recommended_product_ids |-> <<>>,
     follow_up_questions |-> <<"different_search", "more_details">>,
     session_id |-> sid]

\* The outcome of ProductRetrievalService.search_products: it raises
\* ("error") or returns the candidates, each kept as its p.get("id").
SearchResult(kind, products) == [kind |-> kind, products |-> products]

\* ConversationalAgentService.generate_response.  order is the list made of
\* the shown set at step 1; search, constraints, reco and followup are what
\* the collaborators answer.  Besides the world and the returned value the
\* record keeps the constraints step 3 got and what the call passed to
\* mark_rejected and mark_shown.
GenerateResponse(w, sid, message, order, search, constraints, reco, followup) ==
    LET recent_products == LastN(order, TopSlice)
        d == DetectImplicitRejection(GetShownProducts(w, sid).w, sid, message,
                                     recent_products)
        w1 == IF d.val # <<>> THEN MarkRejected(d.w, sid, d.val) ELSE d.w
        w2 == AddUserMessage(w1, sid)
        h == GetConversationHistory(w2, sid)
        c == ExtractAccumulatedConstraints(h.w, sid, constraints)
        f == FilterProducts(c.w, sid, search.products)
        product_ids == IdsOf(Take(f.val, TopSlice))
        w5 == MarkShown(f.w, sid, product_ids)
        recommendation == GenerateStructuredRecommendation(Take(f.val, TopSlice), reco)
        w7 == AddAiMessage(w5, sid)
        follow_ups == Generate(c.val, followup, 4)
    IN  [w |-> IF search.kind = "error" THEN c.w ELSE w7,
         val |-> IF search.kind = "error" \/ follow_ups.raised
                 THEN GetFallbackResponse(sid)
                 ELSE [response_text |-> recommendation.response_text,
                       recommended_product_ids |-> recommendation.recommended_product_ids,
                       follow_up_questions |-> follow_ups.val,
                       session_id |-> sid],
         constraints |-> c.val,
         rejected_ids |-> d.val,
         product_ids |-> IF search.kind = "error" THEN <<>> ELSE product_ids]

-----------------------------------------------------------------------------
(* Inputs *)

\* the product ids a message spells, in any letter case
NamedIn(message) == {IdText(t.w) : t \in {u \in Range(message) : u.w \in IdWords}}

\* lists handed to mark_shown and mark_rejected by their callers
ShownLists == {<<"PRD1">>}
RejectedLists == {<<"PRD1">>, <<"PRD2", "PRD1">>}

\* lists handed to filter_products
ProductLists ==
    {<<>>, <<"PRD2", "PRD1">>, <<"PRD1", "PRD3", "PRD1">>,
     <<"PRD3", "PRD2", None, "PRD1">>}

\* user messages of a conversation
PlainMessage == <<Lo("pink"), Lo("dress")>>
TurnMessages ==
    { PlainMessage,
      <<Lo("not"), Lo("the"), Lo("first"), Lo("one"), Comma, Lo("show"), Lo("different")>>,
      <<Mx("not"), Lo("the"), Up("second")>>,
      <<Lo("not"), Up("prd9")>> }

\* what search_products can answer in a turn
Shelf == <<"PRD1", "PRD2", "PRD3", "PRD4", "PRD5", "PRD6", "PRD9">>
TurnSearchResults ==
    {SearchResult("error", <<>>), SearchResult("ok", <<"PRD2", None>>),
     SearchResult("ok", Shelf)}

\* what the follow-up LLM answers in a turn
TurnFollowUps ==
    {FollowUpReply("error", <<>>), FollowUpReply("object", <<>>),
     FollowUpReply("array", <<"Q1", NotStr, "Q2", "Q3", "Q4", "Q5">>),
     FollowUpReply("text", <<Prose, "Q1">>)}

\* what the LLM can answer to the recommendation prompt
RecoReplies ==
    {RecoReply("error", <<>>), RecoReply("text", <<>>), RecoReply("nodocs", <<>>)}
        \cup {RecoReply("json", ids) : ids \in {<<>>, <<"PRD2", "PRD1">>, <<"PRD9">>}}

-----------------------------------------------------------------------------
(* Actions: one per call of the public interface *)

Apply(w) ==
    /\ now' = w.now
    /\ sessions' = w.sessions
    /\ heap' = w.heap

\* the threads that call into the managers at the same time
Threads == {"A", "B"}

\* a thread that is in no call
Idle == [pc |-> "idle"]

\* per session: the generate_response calls made and failed, and the ids
\* marked shown so far, in the order of their latest marking
NoTurns == [calls |-> 0, failed |-> 0, marked |-> <<>>]

\* the order of marking after product_ids were marked, one after the other
MarkedAfter(marked, product_ids) ==
    SelectSeq(marked, LAMBDA p : p \notin Range(product_ids)) \o AppendNew(<<>>, product_ids)

\* mark_shown in a conversation, the order of marking kept
MarkShownInTurn(sid, product_ids) ==
    /\ Apply(MarkShown(World, sid, product_ids))
    /\ turns' = IF GetSession(World, sid).found
                THEN [turns EXCEPT ![sid].marked = MarkedAfter(@, product_ids)]
                ELSE turns
    /\ ret' = [op |-> "mark_shown", sid |-> sid]
    /\ UNCHANGED <<nextId, named, inflight>>

Init ==
    /\ now = 0
    /\ sessions = {}
    /\ heap = [sid \in SessionIds |-> NewSessionState(0)]
    /\ nextId = 0
    /\ named = [sid \in SessionIds |-> {}]
    /\ turns = [sid \in SessionIds |-> NoTurns]
    /\ inflight = [t \in Threads |-> Idle]
    /\ ret = [op |-> "init"]

\* time passes
Tick ==
    /\ now < MaxTime
    /\ now' = now + 1
    /\ UNCHANGED <<sessions, heap, nextId, named, turns, inflight, ret>>

\* SessionManager.create_session: uuid4 never repeats an id
CreateSession ==
    /\ nextId < MaxSessions
    /\ nextId' = nextId + 1
    /\ sessions' = sessions \cup {nextId + 1}
    /\ heap' = [heap EXCEPT ![nextId + 1] = NewSessionState(now)]
    /\ ret' = [op |-> "create_session", sid |-> nextId + 1]
    /\ UNCHANGED <<now, named, turns, inflight>>

GetSessionCall(sid) ==
    LET g == GetSession(World, sid)
    IN  /\ Apply(g.w)
        /\ ret' = [op |-> "get_session", sid |-> sid, val |-> g.found,
                   stored |-> sid \in sessions,
                   age |-> now - heap[sid].last_updated]
        /\ UNCHANGED <<nextId, named, turns, inflight>>

DeleteSessionCall(sid) ==
    /\ Apply(DeleteSession(World, sid))
    /\ ret' = [op |-> "delete_session", sid |-> sid]
    /\ UNCHANGED <<nextId, named, turns, inflight>>

CleanupCall ==
    LET c == CleanupExpiredSessions(World)
    IN  /\ Apply(c.w)
        /\ ret' = [op |-> "cleanup_expired_sessions", val |-> c.val]
        /\ UNCHANGED <<nextId, named, turns, inflight>>

MarkShownCall(sid, product_ids) ==
    /\ Apply(MarkShown(World, sid, product_ids))
    /\ ret' = [op |-> "mark_shown", sid |-> sid]
    /\ UNCHANGED <<nextId, named, turns, inflight>>

MarkRejectedCall(sid, product_ids) ==
    /\ Apply(MarkRejected(World, sid, product_ids))
    /\ named' = IF GetSession(World, sid).found
                THEN [named EXCEPT ![sid] = @ \cup Range(product_ids)]
                ELSE named
    /\ ret' = [op |-> "mark_rejected", sid |-> sid]
    /\ UNCHANGED <<nextId, turns, inflight>>

FilterProductsCall(sid, products) ==
    LET f == FilterProducts(World, sid, products)
    IN  /\ Apply(f.w)
        /\ ret' = [op |-> "filter_products", sid |-> sid, arg |-> products, val |-> f.val]
        /\ UNCHANGED <<nextId, named, turns, inflight>>

\* filter_products once more, on the list the last call returned
FilterAgain ==
    /\ ret.op = "filter_products"
    /\ LET f == FilterProducts(World, ret.sid, ret.val)
       IN  /\ Apply(f.w)
           /\ ret' = [op |-> "filter_again", sid |-> ret.sid, arg |-> ret.val, val |-> f.val]
    /\ UNCHANGED <<nextId, named, turns, inflight>>

\* what a call finds before it runs: whether the id is in the table, and
\* whether it is there and has not timed out
Before(sid) ==
    [stored |-> sid \in sessions,
     live |-> sid \in sessions /\ ~(now - heap[sid].last_updated > SessionTimeout),
     table |-> sessions]

\* a call of a mutator on any session id
Mutate(op, sid, w) ==
    /\ Apply(w)
    /\ ret' = [op |-> op, sid |-> sid, before |-> Before(sid)]
    /\ UNCHANGED <<nextId, named, turns, inflight>>

\* a call of a reader on any session id
Read(op, sid, r) ==
    /\ Apply(r.w)
    /\ ret' = [op |-> op, sid |-> sid, before |-> Before(sid), val |-> r.val]
    /\ UNCHANGED <<nextId, named, turns, inflight>>

UpdateSessionCall(sid) == Mutate("update_session", sid, UpdateSession(World, sid))

AddUserMessageCall(sid) ==
    /\ Len(heap[sid].conversation_history) < MaxHistory
    /\ Mutate("add_user_message", sid, AddUserMessage(World, sid))

AddAiMessageCall(sid) ==
    /\ Len(heap[sid].conversation_history) < MaxHistory
    /\ Mutate("add_ai_message", sid, AddAiMessage(World, sid))

MarkShownAny(sid, product_ids) ==
    Mutate("mark_shown", sid, MarkShown(World, sid, product_ids))

MarkRejectedAny(sid, product_ids) ==
    Mutate("mark_rejected", sid, MarkRejected(World, sid, product_ids))

GetConversationHistoryCall(sid) ==
    Read("get_conversation_history", sid, GetConversationHistory(World, sid))

GetShownProductsCall(sid) == Read("get_shown_products", sid, GetShownProducts(World, sid))

GetRejectedProductsCall(sid) ==
    Read("get_rejected_products", sid, GetRejectedProducts(World, sid))

GetStatsCall(sid) == Read("get_stats", sid, GetStats(World, sid))

GetRejectionStatsCall(sid) == Read("get_rejection_stats", sid, GetRejectionStats(World, sid))

DetectAny(sid, message, shown_products) ==
    Read("detect_implicit_rejection", sid,
         DetectImplicitRejection(World, sid, message, shown_products))

\* extract_accumulated_constraints; ret keeps the history and the cached
\* constraints the call found
ExtractCall(sid, reply) ==
    LET e == ExtractAccumulatedConstraints(World, sid, reply)
    IN  /\ Apply(e.w)
        /\ ret' = [op |-> "extract_accumulated_constraints", sid |-> sid,
                   before |-> Before(sid),
                   history |-> heap[sid].conversation_history,
                   cached |-> heap[sid].accumulated_constraints,
                   reply |-> reply,
                   val |-> e.val,
                   llm |-> e.llm]
        /\ UNCHANGED <<nextId, named, turns, inflight>>

\* extract_accumulated_constraints once more, right after a call that cached
\* what the LLM replied; first is what that call returned
ExtractAgain(reply) ==
    /\ ret.op = "extract_accumulated_constraints"
    /\ ret.llm /\ ret.reply.kind = "json" /\ ret.before.live
    /\ LET e == ExtractAccumulatedConstraints(World, ret.sid, reply)
       IN  /\ Apply(e.w)
           /\ ret' = [op |-> "extract_again", sid |-> ret.sid,
                      before |-> Before(ret.sid),
                      first |-> ret.val,
                      reply |-> reply,
                      val |-> e.val,
                      llm |-> e.llm]
    /\ UNCHANGED <<nextId, named, turns, inflight>>

GenerateResponseCall(sid, message, order, search, constraints, reco, followup) ==
    /\ turns[sid].calls < MaxCalls
    /\ order \in ListOfSet(GetShownProducts(World, sid).val)
    /\ \E r \in {GenerateResponse(World, sid, message, order, search, constraints, reco,
                                  followup)} :
           /\ Apply(r.w)
           /\ ret' = [op |-> "generate_response", sid |-> sid,
                      recent_products |-> LastN(order, TopSlice),
                      marked |-> turns[sid].marked,
                      search |-> search.kind,
                      followup |-> followup.kind,
                      candidates |-> search.products,
                      constraints |-> r.constraints,
                      val |-> r.val,
                      rejected_ids |-> r.rejected_ids,
                      product_ids |-> r.product_ids]
           /\ turns' = IF GetSession(World, sid).found
                       THEN [turns EXCEPT ![sid] =
                               [calls |-> @.calls + 1,
                                failed |-> @.failed + IF search.kind = "error" THEN 1 ELSE 0,
                                marked |-> MarkedAfter(@.marked, r.product_ids)]]
                       ELSE turns
    /\ named' = IF GetSession(World, sid).found
                THEN [named EXCEPT ![sid] = @ \cup NamedIn(message)]
                ELSE named
    /\ UNCHANGED <<nextId, inflight>>

\* SessionManager and RejectionTracker, called in any order on any session id
Next ==
    \/ Tick
    \/ CreateSession
    \/ \E sid \in SessionIds : GetSessionCall(sid)
    \/ \E sid \in SessionIds : DeleteSessionCall(sid)
    \/ CleanupCall
    \/ \E sid \in SessionIds, ids \in ShownLists : MarkShownCall(sid, ids)
    \/ \E sid \in SessionIds, ids \in RejectedLists : MarkRejectedCall(sid, ids)
    \/ \E sid \in SessionIds, products \in ProductLists : FilterProductsCall(sid, products)
    \/ FilterAgain

Spec == Init /\ [][Next]_vars

\* list(a_set) in catalogue order
Sorted(S) == SelectSeq(AllIds, LAMBDA p : p \in S)

\* The turns of one conversation: a session is created, then
\* generate_response, mark_shown and mark_rejected are called on it.  A turn
\* either varies the message, the order of the shown set and the search
\* result, or it varies what the two LLM calls answer.
NextTurn ==
    \/ nextId = 0 /\ CreateSession
    \/ MarkShownInTurn(1, <<"PRD1">>)
    \/ MarkRejectedCall(1, <<"PRD9">>)
    \/ \E message \in TurnMessages, search \in TurnSearchResults,
          order \in ListOfSet(heap[1].shown_products) :
          GenerateResponseCall(1, message, order, search,
                               Reply("json", JObject({"price"})), RecoReply("error", <<>>),
                               FollowUpReply("array", <<"Q1", "Q2">>))
    \/ \E constraints \in ConstraintReplies, reco \in RecoReplies :
          GenerateResponseCall(1, PlainMessage, Sorted(heap[1].shown_products),
                               SearchResult("ok", <<"PRD2", "PRD1">>), constraints, reco,
                               FollowUpReply("error", <<>>))
    \/ \E constraints \in ConstraintReplies, followup \in TurnFollowUps :
          GenerateResponseCall(1, PlainMessage, Sorted(heap[1].shown_products),
                               SearchResult("ok", <<"PRD2", "PRD1">>), constraints,
                               RecoReply("text", <<>>), followup)

SpecTurn == Init /\ [][NextTurn]_vars

-----------------------------------------------------------------------------
(* One session and the ids that name no session: every operation of       *)
(* SessionManager, RejectionTracker and ConversationMemoryManager            *)

\* what the constraint LLM answers here
MemoryReplies ==
    {Reply("error", JNull), Reply("text", JNull), Reply("json", JNumber),
     Reply("json", JNull), Reply("json", JObject({})), Reply("json", JObject({"price"}))}

NextMemory ==
    \/ Tick
    \/ nextId = 0 /\ CreateSession
    \/ DeleteSessionCall(1)
    \/ \E sid \in SessionIds :
          \/ UpdateSessionCall(sid)
          \/ AddUserMessageCall(sid)
          \/ AddAiMessageCall(sid)
          \/ MarkShownAny(sid, <<"PRD1">>)
          \/ MarkRejectedAny(sid, <<"PRD1">>)
          \/ GetSessionCall(sid)
          \/ FilterProductsCall(sid, <<"PRD1", "PRD2">>)
          \/ GetConversationHistoryCall(sid)
          \/ GetShownProductsCall(sid)
          \/ GetRejectedProductsCall(sid)
          \/ GetStatsCall(sid)
          \/ GetRejectionStatsCall(sid)
          \/ DetectAny(sid, <<Lo("not"), Lo("these")>>, <<"PRD1", "PRD2">>)
          \/ \E reply \in MemoryReplies : ExtractCall(sid, reply)
    \/ \E reply \in MemoryReplies : ExtractAgain(reply)

SpecMemory == Init /\ [][NextMemory]_vars

-----------------------------------------------------------------------------
(* Overlapping calls: a mutator is get_session, a change of the object it
   returned, then update_session. get_session and update_session each run
   under the manager's lock; the change in between runs outside it, in one
   step of the interpreter. Other threads run between the three steps. *)

\* the mutators that read, change and update a session, as the two threads
\* call them: both mark products as shown, one also rejects products and adds
\* the user's turns, the other adds the assistant's
RaceOps(t) ==
    IF t = "A" THEN {"mark_shown", "mark_rejected", "add_user_message"}
    ELSE {"mark_shown", "add_ai_message"}

\* the argument each thread passes: its own product id
RaceIds(t) == IF t = "A" THEN <<"PRD1">> ELSE <<"PRD2">>

\* the thread is between the get_session and the return of a mark_shown
\* on sid
InMarkShown(t, sid) ==
    /\ inflight[t].pc \in {"got", "mutated"}
    /\ inflight[t].sid = sid
    /\ inflight[t].op = "mark_shown"

\* the thread's call has yet to append to the history of sid
Appending(t, sid) ==
    /\ inflight[t].pc = "got"
    /\ inflight[t].sid = sid
    /\ inflight[t].op \in {"add_user_message", "add_ai_message"}

\* the statement between get_session and update_session
InPlace(op, w, sid, product_ids) ==
    CASE op = "mark_shown" -> ShownProductsUpdate(w, sid, product_ids)
      [] op = "mark_rejected" -> RejectedProductsUpdate(w, sid, product_ids)
      [] op = "add_user_message" -> HistoryAppend(w, sid, "user")
      [] op = "add_ai_message" -> HistoryAppend(w, sid, "assistant")

\* session = self.session_manager.get_session(session_id); if not session:
\* return. overlaps records, for a mark_shown, that another mark_shown on
\* the session is in flight.
BeginCall(t, op, sid) ==
    /\ inflight[t].pc \in {"idle", "done"}
    /\ op \in {"add_user_message", "add_ai_message"} =>
           Len(heap[sid].conversation_history)
               + Cardinality({u \in Threads : Appending(u, sid)}) < MaxHistory
    /\ LET g == GetSession(World, sid)
           others == IF op = "mark_shown"
                     THEN {u \in Threads \ {t} : InMarkShown(u, sid)}
                     ELSE {}
       IN  /\ Apply(g.w)
           /\ inflight' =
                  IF ~g.found THEN [inflight EXCEPT ![t] = Idle]
                  ELSE [u \in Threads |->
                           IF u = t
                           THEN [pc |-> "got", op |-> op, sid |-> sid,
                                 product_ids |-> RaceIds(t),
                                 overlaps |-> others # {}]
                           ELSE IF u \in others
                                THEN [inflight[u] EXCEPT !.overlaps = TRUE]
                                ELSE inflight[u]]
    /\ ret' = [op |-> "begin"]
    /\ UNCHANGED <<nextId, named, turns>>

\* the change of the object the call holds. An object that has left the
\* table is reachable from this call alone, which only writes to it.
ChangeStep(t) ==
    /\ inflight[t].pc = "got"
    /\ Apply(InPlace(inflight[t].op, World, inflight[t].sid, inflight[t].product_ids))
    /\ inflight' = [inflight EXCEPT ![t].pc = "mutated"]
    /\ ret' = [op |-> "change"]
    /\ UNCHANGED <<nextId, named, turns>>

\* self.session_manager.update_session(session_id, session), and the return;
\* stored records whether the id was in the table when the update ran
UpdateStep(t) ==
    /\ inflight[t].pc = "mutated"
    /\ Apply(UpdateSession(World, inflight[t].sid))
    /\ inflight' = [inflight EXCEPT ![t] =
                       [pc |-> "done", op |-> @.op, sid |-> @.sid,
                        product_ids |-> @.product_ids, overlaps |-> @.overlaps,
                        stored |-> @.sid \in sessions]]
    /\ ret' = [op |-> "update"]
    /\ UNCHANGED <<nextId, named, turns>>

NextRace ==
    \/ Tick
    \/ nextId = 0 /\ CreateSession
    \/ \E sid \in SessionIds : GetSessionCall(sid)
    \/ \E sid \in SessionIds : DeleteSessionCall(sid)
    \/ CleanupCall
    \/ \E t \in Threads, sid \in SessionIds : \E op \in RaceOps(t) : BeginCall(t, op, sid)
    \/ \E t \in Threads : ChangeStep(t)
    \/ \E t \in Threads : UpdateStep(t)

SpecRace == Init /\ [][NextRace]_vars

-----------------------------------------------------------------------------
(* ProductRetrievalService.extract_attributes_llm, one invocation by thread
   "A": the loop over the attempts, a step per provider call and per sleep *)

max_retries == 3

\* the errors of the provider that the first except clause names
TransientErrors == {"APIConnectionError", "RateLimitError", "InternalServerError"}

\* What one attempt meets: the provider raises (error names the exception),
\* its reply is not JSON ("text"), or its reply parses to value ("json").
Outcome(kind, error, value) == [kind |-> kind, error |-> error, value |-> value]

ProviderOutcomes ==
    {Outcome("error", e, JNull) : e \in TransientErrors \cup {"AuthenticationError"}}
        \cup {Outcome("text", "", JNull)}
        \cup {Outcome("json", "", v) :
                  v \in {JNull, JNumber, JObject({}), JObject({"price"}),
                         JObject({"price", "color"})}}

\* attempts that go on past max_retries
AfterAttemptOneMore(attempt, outcome) ==
    IF outcome.kind = "json" THEN [next |-> "return", value |-> outcome.value]
    ELSE IF outcome.kind = "error" /\ outcome.error \in TransientErrors
    THEN IF attempt < max_retries + 1
         THEN [next |-> "sleep"]
         ELSE [next |-> "raise", error |-> "RuntimeError", after |-> "retries"]
    ELSE IF outcome.kind = "text"
    THEN [next |-> "raise", error |-> "ValueError", after |-> "reply"]
    ELSE [next |-> "raise", error |-> "RuntimeError", after |-> "error"]

\* attempts that are retried whatever went wrong
AfterAttemptRetriesAll(attempt, outcome) ==
    IF outcome.kind = "json" THEN [next |-> "return", value |-> outcome.value]
    ELSE IF attempt < max_retries
    THEN [next |-> "sleep"]
    ELSE [next |-> "raise", error |-> "RuntimeError", after |-> "retries"]

\* the body of the loop for one attempt: the try and its three except
\* clauses, and the raise that follows the loop after the break
AfterAttempt(attempt, outcome) ==
    IF outcome.kind = "json" THEN [next |-> "return", value |-> outcome.value]
    ELSE IF outcome.kind = "error" /\ outcome.error \in TransientErrors
    THEN IF attempt < max_retries
         THEN [next |-> "sleep"]
         ELSE [next |-> "raise", error |-> "RuntimeError", after |-> "retries"]
    ELSE IF outcome.kind = "text"
    THEN [next |-> "raise", error |-> "ValueError", after |-> "reply"]
    ELSE [next |-> "raise", error |-> "RuntimeError", after |-> "error"]

\* the invocation starts: without the prompt in the environment it raises
\* before any provider call
ExtractAttributesBegin(prompt_template) ==
    /\ inflight["A"].pc = "idle"
    /\ inflight' = [inflight EXCEPT !["A"] =
           IF prompt_template
           THEN [pc |-> "attempt", attempt |-> 1, log |-> <<>>, sleeps |-> 0,
                 end |-> [next |-> "none"]]
           ELSE [pc |-> "done", attempt |-> 0, log |-> <<>>, sleeps |-> 0,
                 end |-> [next |-> "raise", error |-> "ValueError", after |-> "prompt"]]]
    /\ ret' = [op |-> "extract_attributes_llm"]
    /\ UNCHANGED <<now, sessions, heap, nextId, named, turns>>

\* self.groq_client.chat.completions.create(...) of the current attempt, and
\* what the loop does with its outcome; log keeps the outcomes met so far
ProviderCall(outcome) ==
    /\ inflight["A"].pc = "attempt"
    /\ LET after == AfterAttempt(inflight["A"].attempt, outcome)
       IN  inflight' = [inflight EXCEPT !["A"] =
               [pc |-> IF after.next = "sleep" THEN "sleep" ELSE "done",
                attempt |-> @.attempt,
                log |-> Append(@.log, outcome),
                sleeps |-> @.sleeps,
                end |-> IF after.next = "sleep" THEN @.end ELSE after]]
    /\ ret' = [op |-> "provider_call"]
    /\ UNCHANGED <<now, sessions, heap, nextId, named, turns>>

\* time.sleep(sleep_seconds), then the next attempt
SleepStep ==
    /\ inflight["A"].pc = "sleep"
    /\ inflight' = [inflight EXCEPT !["A"].pc = "attempt",
                                    !["A"].attempt = @ + 1,
                                    !["A"].sleeps = @ + 1]
    /\ ret' = [op |-> "sleep"]
    /\ UNCHANGED <<now, sessions, heap, nextId, named, turns>>

NextExtract ==
    \/ \E prompt_template \in BOOLEAN : ExtractAttributesBegin(prompt_template)
    \/ \E outcome \in ProviderOutcomes : ProviderCall(outcome)
    \/ SleepStep

\* the interpreter goes on running the loop, and a provider call returns or
\* raises
SpecExtract == Init /\ [][NextExtract]_vars /\ WF_vars(NextExtract)

-----------------------------------------------------------------------------
(* detect_implicit_rejection as a function of its arguments *)

\* the phrases messages are made of
DetectPhrases ==
    { <<Lo("not"), Lo("the"), Lo(OrdinalWords[k])>> : k \in DOMAIN OrdinalWords }
    \cup
    { <<Lo("not"), Lo("first")>>, <<Mx("not"), Lo("the"), Up("third")>>,
      <<Lo("not")>>, <<Lo("the")>>, <<Lo("first")>>, <<Lo("one")>>, <<Comma>>,
      <<Lo("not"), Comma>>,
      <<Lo("not"), Lo("these")>>, <<Lo("show"), Lo("different")>>,
      <<Up("don't"), Lo("like")>>,
      <<Lo("too"), Lo("expensive")>>, <<Mx("cheaper")>>,
      <<Lo("other"), Lo("colors")>>, <<Lo("different"), Lo("color")>>,
      <<Lo("not"), Up("prd1")>>, <<Lo("except"), Lo("prd2")>>,
      <<Up("not"), Mx("prd9")>>, <<Up("prd1")>> }

DetectMessages == {Concat(ps) : ps \in SeqsUpTo(DetectPhrases, MaxPhrases)}

\* the recently-shown lists: the first ids of a few shelves
RecentShelves ==
    { <<"PRD1", "PRD2", "PRD3", "PRD4", "PRD5", "PRD6", "PRD9">>,
      <<"PRD9", "PRD6", "PRD5", "PRD4", "PRD3", "PRD2", "PRD1">>,
      <<"PRD1", None, "PRD1", "PRD2", None, "PRD2", "PRD3">> }

RecentLists == {Take(shelf, n) : shelf \in RecentShelves, n \in 0..MaxRecent}

InitDetect ==
    /\ now = 0
    /\ sessions \in {{}, {1}}
    /\ heap = [sid \in SessionIds |-> NewSessionState(0)]
    /\ nextId = 1
    /\ named = [sid \in SessionIds |-> {}]
    /\ turns = [sid \in SessionIds |-> NoTurns]
    /\ inflight = [t \in Threads |-> Idle]
    /\ \E message \in DetectMessages, shown_products \in RecentLists :
          ret = [op |-> "detect_input", message |-> message,
                 shown_products |-> shown_products]

DetectCall ==
    /\ ret.op = "detect_input"
    /\ LET d == DetectImplicitRejection(World, 1, ret.message, ret.shown_products)
       IN  /\ Apply(d.w)
           /\ ret' = [op |-> "detect_implicit_rejection", sid |-> 1,
                      message |-> ret.message,
                      shown_products |-> ret.shown_products,
                      found |-> 1 \in sessions,
                      val |-> d.val]
    /\ UNCHANGED <<nextId, named, turns, inflight>>

NextDetect == DetectCall

SpecDetect == InitDetect /\ [][NextDetect]_vars

-----------------------------------------------------------------------------
(* FollowUpQuestionGenerator.generate as a function of its arguments *)

\* the items of arrays and the lines of texts: the first ones of a few shelves
ItemShelves ==
    { <<"Q1", "Q2", "Q3", "Q4", "Q5", "Q6", "Q7">>,
      <<"Q1", Blank, "Q2", NotStr, "Q3", "Q4", "Q5">>,
      <<NotStr, Blank, NotStr, Blank, NotStr, Blank, NotStr>> }
LineShelves ==
    { <<"Q1", "Q2", "Q3", "Q4", "Q5", "Q6", "Q7">>,
      <<Prose, "Q1", Blank, "Q2", "Q3", "Q4", "Q5">>,
      <<Prose, Prose, Blank, Prose, Prose, Blank, Prose>> }

FollowUpReplies ==
    {FollowUpReply("error", <<>>), FollowUpReply("object", <<>>)}
        \cup {FollowUpReply("array", Take(shelf, n)) : shelf \in ItemShelves, n \in 0..MaxItems}
        \cup {FollowUpReply("text", Take(shelf, n)) : shelf \in LineShelves, n \in 1..MaxItems}

\* the constraint mappings a caller knows
KnownConstraints == {JObject(keys) : keys \in SUBSET ConstraintKeys}

InitFollowUp ==
    /\ now = 0
    /\ sessions = {}
    /\ heap = [sid \in SessionIds |-> NewSessionState(0)]
    /\ nextId = 0
    /\ named = [sid \in SessionIds |-> {}]
    /\ turns = [sid \in SessionIds |-> NoTurns]
    /\ inflight = [t \in Threads |-> Idle]
    /\ \E accumulated_constraints \in KnownConstraints, reply \in FollowUpReplies,
          max_questions \in 1..4 :
          ret = [op |-> "generate_input",
                 accumulated_constraints |-> accumulated_constraints,
                 reply |-> reply,
                 max_questions |-> max_questions]

GenerateCall ==
    /\ ret.op = "generate_input"
    /\ ret' = [op |-> "generate",
               accumulated_constraints |-> ret.accumulated_constraints,
               reply |-> ret.reply,
               max_questions |-> ret.max_questions,
               out |-> Generate(ret.accumulated_constraints, ret.reply, ret.max_questions)]
    /\ UNCHANGED <<now, sessions, heap, nextId, named, turns, inflight>>

NextFollowUp == GenerateCall

SpecFollowUp == InitFollowUp /\ [][NextFollowUp]_vars

-----------------------------------------------------------------------------
(* What the claims speak of, stated apart from the operators above *)

\* the list without the entries that are in R, the others in their order
RECURSIVE Without(_, _)
Without(list, R) ==
    IF list = <<>> THEN <<>>
    ELSE IF Head(list) \in R THEN Without(Tail(list), R)
         ELSE <<Head(list)>> \o Without(Tail(list), R)

\* the message says the words one after the other, in whatever letter case
Says(message, words) ==
    \E i \in 1..Len(message) :
        /\ i + Len(words) - 1 <= Len(message)
        /\ \A j \in 1..Len(words) : message[i + j - 1].w = words[j]

SaysAny(message, phrases) == \E words \in phrases : Says(message, words)

\* "not [the] <k-th>"
SaysOrdinal(message, k) ==
    SaysAny(message, {<<"not", OrdinalWords[k]>>, <<"not", "the", OrdinalWords[k]>>})

DismissalPhrases ==
    {<<"not", "these">>, <<"show", "different">>, <<"something", "else">>,
     <<"other", "options">>, <<"different", "ones">>, <<"not", "interested">>,
     <<"don't", "like">>}
PricePhrases ==
    {<<"too", "expensive">>, <<"too", "costly">>, <<"cheaper">>,
     <<"less", "expensive">>, <<"lower", "price">>}
StylePhrases ==
    {<<"different", "color">>, <<"other", "color">>, <<"other", "colors">>,
     <<"not", "this", "color">>, <<"different", "style">>}

SaysRejectAll(message) ==
    SaysAny(message, DismissalPhrases \cup PricePhrases \cup StylePhrases)

\* the ids the message names after "not" or "except"
NegatedIds(message) ==
    {IdText(message[i + 1].w) :
        i \in {j \in 1..(Len(message) - 1) :
                  message[j].w \in {"not", "except"} /\ message[j + 1].w \in IdWords}}

Detected == ret.op = "detect_implicit_rejection" /\ ret.found

Turned == ret.op = "generate_response"

\* the ids at the indexes of the ordinals the message says, from the k-th on
RECURSIVE OrdinalIds(_, _, _)
OrdinalIds(message, list, k) ==
    IF k > 5 THEN <<>>
    ELSE (IF SaysOrdinal(message, k) /\ k <= Len(list) /\ list[k] # None
          THEN <<list[k]>> ELSE <<>>)
         \o OrdinalIds(message, list, k + 1)

-----------------------------------------------------------------------------
(* Claims *)

\* C1: in every reachable state, every id in a session's rejected_products is
\* in that session's shown_products or was explicitly named: passed to
\* mark_rejected by a caller or spelled as a product id in a user message.
C1_RejectedShownOrNamed ==
    \A sid \in SessionIds :
        heap[sid].rejected_products \subseteq heap[sid].shown_products \cup named[sid]

\* a turn has rejected a shown product that nobody named, next to a named one
C1_Witness ==
    /\ Turned
    /\ ret.rejected_ids # <<>>
    /\ heap[1].rejected_products \ named[1] # {}
    /\ "PRD9" \in heap[1].rejected_products \ heap[1].shown_products

\* C2: get_session on a stored session with now - last_updated > timeout
\* returns not-found and leaves the session out of the table.
C2_ExpiredNeverReturned ==
    (ret.op = "get_session" /\ ret.stored /\ ret.age > SessionTimeout)
        => (~ret.val /\ ret.sid \notin sessions)

C2_Witness ==
    /\ ret.op = "get_session"
    /\ ret.stored
    /\ ret.age > SessionTimeout
    /\ ~ret.val

\* C3: filter_products returns the products of its input whose id is not in
\* the session's rejected set, in input order; the input as it is when the
\* session is missing or has rejected nothing.
C3_FilterRemovesRejected ==
    ret.op = "filter_products" =>
        ret.val = IF ret.sid \in sessions
                  THEN Without(ret.arg, heap[ret.sid].rejected_products)
                  ELSE ret.arg

\* a rejected product is taken out from between two that stay
C3_Witness ==
    /\ ret.op = "filter_products"
    /\ ret.sid \in sessions
    /\ Len(ret.val) >= 2
    /\ Len(ret.val) < Len(ret.arg)
    /\ \E other \in sessions :
          heap[other].rejected_products # heap[ret.sid].rejected_products

\* C4: filtering the result of filter_products again gives the same list.
C4_FilterIdempotent ==
    ret.op = "filter_again" => ret.val = ret.arg

C4_Witness ==
    /\ ret.op = "filter_again"
    /\ ret.sid \in sessions
    /\ heap[ret.sid].rejected_products # {}
    /\ Len(ret.val) >= 2

\* C5: a message that says "not [the] <ordinal>" and nothing of another class
\* makes detect_implicit_rejection return, for each ordinal said, the id at
\* that index of recently_shown when there is one, and nothing else.
C5_OrdinalRejectsIndex ==
    (Detected /\ ~SaysRejectAll(ret.message) /\ NegatedIds(ret.message) = {})
        => ret.val = OrdinalIds(ret.message, ret.shown_products, 1)

\* two ordinals said, one of them past the end of the list
C5_Witness ==
    /\ Detected
    /\ ~SaysRejectAll(ret.message)
    /\ NegatedIds(ret.message) = {}
    /\ SaysOrdinal(ret.message, 2)
    /\ SaysOrdinal(ret.message, 5)
    /\ Len(ret.shown_products) = 4
    /\ ret.val = <<ret.shown_products[2]>>

\* C6: a message with a dismissal, price or style phrase makes
\* detect_implicit_rejection return every id of recently_shown.
C6_PhraseRejectsAll ==
    (Detected /\ SaysRejectAll(ret.message))
        => \A i \in DOMAIN ret.shown_products :
              ret.shown_products[i] # None => Contains(ret.val, ret.shown_products[i])

C6_Witness ==
    /\ Detected
    /\ SaysAny(ret.message, PricePhrases)
    /\ ~SaysAny(ret.message, DismissalPhrases \cup StylePhrases)
    /\ Len(ret.shown_products) = 5
    /\ Len(ret.val) = 5

\* C7: a message with "not <ID>" or "except <ID>", the id in any letter case,
\* makes detect_implicit_rejection return that id.
C7_NegatedIdReturned ==
    Detected => \A id \in NegatedIds(ret.message) : Contains(ret.val, id)

\* C8: the ids a generate_response call marks shown are the ids of the first
\* five candidates that survive filtering; none is in the rejected set left
\* by the call's own rejection step, none was rejected by its message.
C8_ShownAfterRejection ==
    (Turned /\ ret.sid \in sessions) =>
        LET rejected == heap[ret.sid].rejected_products
            surviving == Without(ret.candidates, rejected)
        IN  /\ ret.product_ids = Without(Take(surviving, 5), {None})
            /\ Range(ret.product_ids) \cap rejected = {}
            /\ Range(ret.product_ids) \cap Range(ret.rejected_ids) = {}
            /\ Range(ret.rejected_ids) \subseteq rejected
            /\ Range(ret.product_ids) \subseteq heap[ret.sid].shown_products

\* the message rejects a shown product and more than five candidates survive
C8_Witness ==
    /\ Turned
    /\ ret.sid \in sessions
    /\ ret.rejected_ids # <<>>
    /\ Range(ret.rejected_ids) \cap Range(ret.candidates) # {}
    /\ Len(Without(ret.candidates, heap[ret.sid].rejected_products)) > 5
    /\ Len(ret.product_ids) = 5

\* C9: every id in the recommended_product_ids generate_response returns is
\* the id of a product of the slice the call marked shown, and is not in the
\* session's rejected set, whatever the LLM replies.
C9_RecommendedWithinSlice ==
    Turned =>
        /\ Range(ret.val.recommended_product_ids) \subseteq Range(ret.product_ids)
        /\ ret.sid \in sessions =>
              Range(ret.val.recommended_product_ids)
                  \cap heap[ret.sid].rejected_products = {}

Alternates(history) ==
    \A i \in DOMAIN history :
        history[i] = IF i % 2 = 1 THEN "user" ELSE "assistant"

-----------------------------------------------------------------------------
(* Claims on FollowUpQuestionGenerator *)

Generated == ret.op = "generate"

\* the deterministic fallback list for a mapping with these keys
FallbackFor(keys) ==
    LET asked == Without(<<"price", "occasion", "color", "brand">>, keys)
    IN  IF Len(asked) < 2 THEN asked \o <<"more_options", "size_help">> ELSE asked

\* C16: generate returns at most max_questions questions on every path, for
\* every max_questions in 1..4.
C16_AtMostMaxQuestions ==
    Generated => (~ret.out.raised /\ Len(ret.out.val) <= ret.max_questions)

\* C17: when the LLM call raises, generate returns the fallback list: the
\* canned question of each of price, occasion, color, brand that is not a
\* known constraint, in that order, the two generic questions added when
\* fewer than two resulted; between 2 and 4 questions.
C17_FallbackQuestions ==
    (Generated /\ ret.reply.kind = "error") =>
        /\ ~ret.out.raised
        /\ ret.out.val = FallbackFor(ret.accumulated_constraints.keys)
        /\ Len(ret.out.val) \in 2..4

\* one category unknown: its question and the two generic ones
C17_Witness ==
    /\ Generated
    /\ ret.reply.kind = "error"
    /\ ret.accumulated_constraints.keys = {"price", "occasion", "color"}
    /\ ret.out.val = <<"brand", "more_options", "size_help">>

\* C18: when the LLM reply is JSON but not an array, or is not JSON, generate
\* returns the deterministic fallback questions, as when the LLM call fails.
C18_FallbackOnBadReply ==
    (Generated /\ ret.reply.kind \in {"object", "text"}) =>
        /\ ~ret.out.raised
        /\ ret.out.val = FallbackFor(ret.accumulated_constraints.keys)

-----------------------------------------------------------------------------
(* Claims on the failure paths *)

\* a step of the turn raised: retrieval, or the follow-up fallback asked about
\* constraints that are not a container after the follow-up LLM failed
TurnRaised ==
    \/ ret.search = "error"
    \/ ret.followup = "error" /\ ret.constraints.json # "object"

\* C11: a generate_response call in which a step raises returns the fixed
\* apology, no recommended id, the two generic follow-up questions and the
\* session id it was given; a call in which no step raises never returns it.
C11_ExceptionGivesApology ==
    Turned =>
        /\ ret.val.session_id = ret.sid
        /\ TurnRaised =>
              ret.val = [response_text |-> "apology",
                         recommended_product_ids |-> <<>>,
                         follow_up_questions |-> <<"different_search", "more_details">>,
                         session_id |-> ret.sid]
        /\ ~TurnRaised => ret.val.response_text # "apology"

\* the follow-up step raised, after the assistant turn was recorded
C11_Witness ==
    /\ Turned
    /\ 1 \in sessions
    /\ heap[1].conversation_history = <<"user", "assistant">>
    /\ ret.search = "ok"
    /\ TurnRaised
    /\ ret.val.response_text = "apology"
    /\ ret.product_ids # <<>>

-----------------------------------------------------------------------------
(* Claims on missing sessions and on constraint extraction *)

MutatorOps ==
    {"update_session", "add_user_message", "add_ai_message", "mark_shown", "mark_rejected"}
ReaderOps ==
    {"get_conversation_history", "get_shown_products", "get_rejected_products",
     "get_stats", "get_rejection_stats", "detect_implicit_rejection"}

\* the empty result of each reader
EmptyResult ==
    /\ ret.op \in {"get_conversation_history", "detect_implicit_rejection"} => ret.val = <<>>
    /\ ret.op \in {"get_shown_products", "get_rejected_products"} => ret.val = {}
    /\ ret.op \in {"get_stats", "get_rejection_stats"} => DOMAIN ret.val = {}

\* C12: no operation adds a session; called with an id that is not in the
\* table, a mutator leaves the table as it was and a reader returns an empty
\* result; an id whose session has timed out is taken out of the table by
\* every operation but update_session, and readers return an empty result.
C12_MissingSessionIsNoOp ==
    ret.op \in MutatorOps \cup ReaderOps =>
        /\ sessions \subseteq ret.before.table
        /\ ~ret.before.stored => sessions = ret.before.table
        /\ (~ret.before.live /\ ret.op # "update_session") =>
              sessions = ret.before.table \ {ret.sid}
        /\ (~ret.before.live /\ ret.op \in ReaderOps) => EmptyResult

\* a turn is added for a session that was created and is gone
C12_Witness ==
    /\ ret.op = "add_user_message"
    /\ ret.sid = 1
    /\ nextId = 1
    /\ ~ret.before.stored
    /\ sessions = {}

Extracted == ret.op = "extract_accumulated_constraints"

\* C13: on a session whose history is empty, extract_accumulated_constraints
\* returns an empty mapping and does not call the LLM.
C13_EmptyHistoryNoLlm ==
    (Extracted /\ ret.before.live /\ ret.history = <<>>) =>
        (ret.val = JObject({}) /\ ~ret.llm)

C13_Witness ==
    /\ Extracted
    /\ ret.before.live
    /\ ret.history = <<>>
    /\ ret.reply = Reply("json", JObject({"price"}))
    /\ ret.val = JObject({})

\* C14: the call that follows a call which cached what the LLM replied
\* returns the same value and does not call the LLM, whatever was cached.
C14_CachedIsReturned ==
    ret.op = "extract_again" => (ret.val = ret.first /\ ~ret.llm)

\* C15: when the LLM call fails or its reply is not JSON,
\* extract_accumulated_constraints returns an empty mapping and the cached
\* constraints of the session stay as they were.
C15_FailureGivesEmpty ==
    (Extracted /\ ret.llm /\ ret.reply.kind \in {"error", "text"}) =>
        /\ ret.val = JObject({})
        /\ heap[ret.sid].accumulated_constraints = ret.cached

\* the LLM fails after an earlier call cached null
C15_Witness ==
    /\ Extracted
    /\ ret.llm
    /\ ret.reply.kind = "error"
    /\ ret.before.live
    /\ ret.cached = JNull
    /\ ret.val = JObject({})

-----------------------------------------------------------------------------
(* Claims about overlapping calls (SpecRace) *)

\* the call the thread has returned from
Done(t) == inflight[t].pc = "done"

\* C19: a call whose update_session ran after a delete, a sweep or lazy
\* expiry had removed its session did not put the session back: the id is out
\* of the table from then on, and a get_session for it returns not-found.
C19_RemovedStaysRemoved ==
    \A t \in Threads :
        (Done(t) /\ ~inflight[t].stored) =>
            /\ inflight[t].sid \notin sessions
            /\ (ret.op = "get_session" /\ ret.sid = inflight[t].sid) => ~ret.val

\* a get_session that follows such a call and returns not-found
C19_Witness ==
    \E t \in Threads :
        /\ Done(t)
        /\ ~inflight[t].stored
        /\ ret.op = "get_session"
        /\ ret.sid = inflight[t].sid
        /\ ~ret.val

\* the two threads have both returned from mark_shown calls on one session
\* that is still in the table, each call having been in flight during the
\* other
OverlappedShown ==
    /\ \A t \in Threads :
           Done(t) /\ inflight[t].op = "mark_shown" /\ inflight[t].overlaps
    /\ inflight["A"].sid = inflight["B"].sid
    /\ inflight["A"].sid \in sessions

\* C20 as stated: after two overlapped mark_shown calls the shown set lacks
\* the ids one of the two added (last writer wins).
C20_LastWriterWins ==
    OverlappedShown =>
        \E t \in Threads :
            ~(Range(inflight[t].product_ids) \subseteq
                  heap[inflight[t].sid].shown_products)

\* C20, amended: no mark_shown is lost; the ids of every call that has
\* returned are in the shown set of its session while the session is in the
\* table, whatever ran between its steps.
C20_NoLostUpdate ==
    \A t \in Threads :
        (Done(t) /\ inflight[t].op = "mark_shown" /\ inflight[t].sid \in sessions) =>
            Range(inflight[t].product_ids) \subseteq heap[inflight[t].sid].shown_products

\* two overlapped mark_shown calls, and the ids of both in the shown set
C20_Witness ==
    /\ OverlappedShown
    /\ heap[inflight["A"].sid].shown_products = {"PRD1", "PRD2"}

-----------------------------------------------------------------------------
(* Claims about the sweep and the timestamps (Spec) *)

\* the step is a call of cleanup_expired_sessions: no other call leaves this
\* return value and the clock alone
Swept == ret'.op = "cleanup_expired_sessions" /\ now' = now

\* C21: cleanup_expired_sessions removes exactly the sessions with
\* now - last_updated > timeout, leaves every other session and its state as
\* they were, and returns the number of sessions it removed.
C21_SweepIsExact ==
    [][Swept =>
          /\ sessions' = {sid \in sessions : ~(now - heap[sid].last_updated > SessionTimeout)}
          /\ \A sid \in sessions' : heap'[sid] = heap[sid]
          /\ ret'.val = Cardinality(sessions \ sessions')]_vars

\* a sweep that removed one session and kept another, which had been marked
C21_Witness ==
    /\ ret.op = "cleanup_expired_sessions"
    /\ ret.val = 1
    /\ \E sid \in sessions : heap[sid].shown_products # {}

-----------------------------------------------------------------------------
(* Claims about extract_attributes_llm (SpecExtract) *)

\* the invocation has started / has returned or raised
Invoked == inflight["A"].pc # "idle"
Finished == inflight["A"].pc = "done"

\* the attempt raised one of the transient provider errors
Transient(outcome) == outcome.kind = "error" /\ outcome.error \in TransientErrors

\* the attempt got a reply that is not JSON, or raised another error
Fatal(outcome) == outcome.kind = "text" \/ (outcome.kind = "error" /\ ~Transient(outcome))

\* at most three provider calls, each but the first after a transient error
\* of the one before and one sleep; no sleep after the last; a parsed reply is
\* returned at once; three transient errors end in the hard failure
RetryDiscipline ==
    Invoked =>
        LET x == inflight["A"]
            n == Len(x.log)
        IN  /\ n <= max_retries
            /\ \A k \in 1..(n - 1) : Transient(x.log[k])
            /\ x.sleeps = IF x.pc = "attempt" \/ n = 0 THEN n ELSE n - 1
            /\ (n > 0 /\ x.log[n].kind = "json") =>
                   /\ Finished
                   /\ x.end = [next |-> "return", value |-> x.log[n].value]
            /\ (n > 0 /\ Finished /\ Transient(x.log[n])) =>
                   /\ n = max_retries
                   /\ x.end = [next |-> "raise", error |-> "RuntimeError", after |-> "retries"]
            /\ (n > 0 /\ ~Finished) => Transient(x.log[n])

\* C22: one invocation of extract_attributes_llm makes at most 3 provider
\* calls, retrying only after a transient error with one sleep in between,
\* returns a parsed reply at once, raises after 3 transient failures, and
\* always comes to an end.
C22_BoundedRetries == []RetryDiscipline /\ <>Finished

\* three transient failures, two sleeps, and the hard failure
C22_Witness ==
    /\ Finished
    /\ Len(inflight["A"].log) = 3
    /\ inflight["A"].sleeps = 2
    /\ inflight["A"].end.next = "raise"
    /\ \A k \in 1..3 : Transient(inflight["A"].log[k])

\* C23: an attempt that gets a reply that is not JSON, or an error that is not
\* transient, is the last one: the invocation raises at once (ValueError for
\* the reply, RuntimeError for the error) without a sleep after it, also after
\* retried attempts.
C23_FailsFast ==
    Invoked =>
        \A k \in DOMAIN inflight["A"].log :
            Fatal(inflight["A"].log[k]) =>
                /\ k = Len(inflight["A"].log)
                /\ Finished
                /\ inflight["A"].sleeps = k - 1
                /\ inflight["A"].end =
                       IF inflight["A"].log[k].kind = "text"
                       THEN [next |-> "raise", error |-> "ValueError", after |-> "reply"]
                       ELSE [next |-> "raise", error |-> "RuntimeError", after |-> "error"]

\* a reply that is not JSON at the third attempt, after two retried ones
C23_Witness ==
    /\ Finished
    /\ Len(inflight["A"].log) = 3
    /\ inflight["A"].log[3].kind = "text"
    /\ inflight["A"].end.next = "raise"

-----------------------------------------------------------------------------
(* Claims about the cached constraints over the turns (SpecMemory) *)

\* the session holds a mapping with at least one key as its constraints
HasConstraints(sid) ==
    /\ heap[sid].accumulated_constraints.json = "object"
    /\ heap[sid].accumulated_constraints.keys # {}

-----------------------------------------------------------------------------
(* Claims about the partial state of a failed turn (SpecTurn) *)

\* C25: a generate_response call on a live session whose retrieval raises
\* keeps what the earlier steps wrote: the ids it detected are added to
\* rejected_products and the user turn is appended to the history; it appends
\* no assistant turn and marks no product as shown.
C25_NoRollback ==
    [][(/\ ret'.op = "generate_response"
        /\ ret'.search = "error"
        /\ ret'.sid \in sessions
        /\ ~(now - heap[ret'.sid].last_updated > SessionTimeout)) =>
           /\ ret'.sid \in sessions'
           /\ heap'[ret'.sid].rejected_products =
                  heap[ret'.sid].rejected_products \cup Range(ret'.rejected_ids)
           /\ heap'[ret'.sid].conversation_history =
                  Append(heap[ret'.sid].conversation_history, "user")
           /\ heap'[ret'.sid].shown_products = heap[ret'.sid].shown_products]_vars

\* a failed turn that rejected a product, which is still rejected, and whose
\* user turn is the last of the history
C25_Witness ==
    /\ Turned
    /\ ret.search = "error"
    /\ ret.sid \in sessions
    /\ ret.rejected_ids # <<>>
    /\ Range(ret.rejected_ids) \subseteq heap[ret.sid].rejected_products
    /\ heap[ret.sid].conversation_history = <<"user">>
    /\ heap[ret.sid].shown_products # {}

-----------------------------------------------------------------------------
(* Claims about the list given to the detection (SpecTurn) *)

\* C26: the list generate_response passes to detect_implicit_rejection is
\* the most recently shown slice: the up to five ids last marked shown in the
\* session, in the order in which they were marked.
C26_RecentSliceInOrder ==
    Turned => ret.recent_products = LastN(ret.marked, TopSlice)

-----------------------------------------------------------------------------
(* Claims about repeated ids in a detection (SpecDetect) *)

\* no id occurs twice in the list (None, a product without id, set aside)
NoRepeats(list) ==
    \A i, j \in DOMAIN list : (i < j /\ list[i] # None) => list[i] # list[j]

\* the message has an ordinal that the list reaches and a dismissal phrase
OrdinalAndDismissal ==
    /\ Detected
    /\ ret.found
    /\ SaysAny(ret.message, DismissalPhrases)
    /\ \E k \in DOMAIN OrdinalWords :
           /\ SaysOrdinal(ret.message, k)
           /\ k <= Len(ret.shown_products)
           /\ ret.shown_products[k] # None

\* C27 as stated: an ordinal reference together with a dismissal phrase, over
\* a list of distinct ids, makes detect_implicit_rejection return an id twice.
C27_DuplicatesAcrossClasses ==
    (OrdinalAndDismissal /\ NoRepeats(ret.shown_products)) => ~NoRepeats(ret.val)

\* C27, amended: over a list of distinct ids detect_implicit_rejection
\* returns no id twice, whichever classes fire.
C27_NoDuplicates ==
    (Detected /\ NoRepeats(ret.shown_products)) => NoRepeats(ret.val)

\* "not the second" and "not these" over three distinct ids: the second id
\* once, then the others
C27_Witness ==
    /\ OrdinalAndDismissal
    /\ SaysOrdinal(ret.message, 2)
    /\ ret.shown_products = <<"PRD1", "PRD2", "PRD3">>
    /\ ret.val = <<"PRD2", "PRD1", "PRD3">>

-----------------------------------------------------------------------------
(* Claims about expiry and the timestamp (SpecMemory) *)

\* the session is in the table and has timed out
Stale(sid) == sid \in sessions /\ now - heap[sid].last_updated > SessionTimeout

\* C28: update_session on an id that is in the table but has timed out keeps
\* the session, with its state, and sets last_updated to now, so that a
\* get_session that follows returns it.
C28_UpdateRevives ==
    [][(ret'.op = "update_session" /\ now' = now /\ Stale(ret'.sid)) =>
           /\ sessions' = sessions
           /\ heap' = [heap EXCEPT ![ret'.sid].last_updated = now]
           /\ ~(now' - heap'[ret'.sid].last_updated > SessionTimeout)]_vars

\* an update that found the session timed out and left it fresh
C28_Witness ==
    /\ ret.op = "update_session"
    /\ ret.before.stored
    /\ ~ret.before.live
    /\ ret.sid \in sessions
    /\ heap[ret.sid].last_updated = now
    /\ heap[ret.sid].conversation_history # <<>>

\* the operations that only read a session
ReadOnlyOps == ReaderOps \cup {"get_session", "filter_products"}

\* C29: a read-only operation changes the last_updated of no session; called
\* on a session that has timed out it finds nothing and the session leaves
\* the table. A last_updated that changes is set to the time of the call, by
\* an operation that is not read-only.
C29_ReadsDoNotRefresh ==
    [][/\ (ret'.op \in ReadOnlyOps /\ now' = now) =>
              /\ \A sid \in sessions' : heap'[sid].last_updated = heap[sid].last_updated
              /\ Stale(ret'.sid) => ret'.sid \notin sessions'
       /\ \A sid \in sessions \cap sessions' :
              heap'[sid].last_updated # heap[sid].last_updated =>
                  /\ ret'.op \notin ReadOnlyOps
                  /\ heap'[sid].last_updated = now]_vars

\* a read of a session at the very end of its life: the read has not
\* refreshed it
C29_Witness ==
    /\ ret.op \in ReadOnlyOps \ {"get_session", "filter_products"}
    /\ ret.before.live
    /\ ret.sid \in sessions
    /\ now - heap[ret.sid].last_updated = SessionTimeout
    /\ now > 0

-----------------------------------------------------------------------------
(* Claims about the growth of the product sets (SpecTurn) *)

\* C30: while a session stays in the table its shown_products and
\* rejected_products only grow, whatever is called: generate_response, with
\* the calls it makes to the tracker and to the memory manager, mark_shown or
\* mark_rejected.
C30_SetsOnlyGrow ==
    [][\A sid \in sessions \cap sessions' :
          /\ heap[sid].shown_products \subseteq heap'[sid].shown_products
          /\ heap[sid].rejected_products \subseteq heap'[sid].rejected_products]_vars

\* a turn that rejected the product shown before it and showed another: the
\* first is still in both sets
C30_Witness ==
    /\ Turned
    /\ ret.sid \in sessions
    /\ ret.rejected_ids = <<"PRD1">>
    /\ ret.product_ids = <<"PRD2">>
    /\ "PRD1" \in heap[ret.sid].rejected_products
    /\ heap[ret.sid].shown_products = {"PRD1", "PRD2"}

====
